---------------------------- MODULE Spec2Model ----------------------------
(***************************************************************************)
(* scripts/generate_translations.py: pseudo-localisation of a backend      *)
(* gotext catalog (process_backend) and of a frontend key tree             *)
(* (process_frontend, get_nested, set_nested).                             *)
(*                                                                         *)
(* Strings are sequences of one-character strings.  A JSON value is a      *)
(* record [t, v]: t is "null", "str", "list" or "dict"; v is the string,   *)
(* the sequence of elements, or the function from keys to values.  A file  *)
(* is Absent, Garbage (text json.load rejects) or the text                *)
(* json.dump writes, kept as nested key-sorted association lists.          *)
(***************************************************************************)
EXTENDS Integers, Sequences, FiniteSets, TLC

VARIABLES
    pc,        \* position of the interpreter
    catFile,   \* locales/en/out.gotext.json
    deCatFile, \* locales/de/messages.gotext.json
    keysFile,  \* ui/src/locales/keys_found.txt
    enFile,    \* ui/src/locales/en.json
    deFile,    \* ui/src/locales/de.json
    data,      \* process_backend: data
    j,         \* process_backend: messages already handled by the loop
    keys,      \* process_frontend: keys
    en_data,   \* process_frontend: en_data
    de_data,   \* process_frontend: de_data
    i,         \* process_frontend: keys already handled by the loop
    en_val,    \* process_frontend: en_val of the key being handled
    calls,     \* history: the operations entered, in order
    written,   \* history: the files opened for writing, in order
    run,       \* history: which run of process_frontend this is
    enFile0,   \* history: the EN file before the first run
    enFile1,   \* history: the EN file the first run wrote
    deFile1,   \* history: the DE file the first run wrote
    sn_data,   \* set_nested alone: the tree before the call
    sn_key,    \* set_nested alone: the key
    sn_out     \* set_nested alone: the tree after the call

vars == <<pc, catFile, deCatFile, keysFile, enFile, deFile, data, j, keys,
          en_data, de_data, i, en_val, calls, written, run,
          enFile0, enFile1, deFile1, sn_data, sn_key, sn_out>>

---------------------------------------------------------------------------
(* Characters and strings.                                                 *)

\* The characters in use, in code point order.
Ascii ==
    <<" ", ".",
      "A", "B", "C", "D", "E", "F", "G", "H", "I", "J", "K", "L", "M",
      "N", "O", "P", "Q", "R", "S", "T", "U", "V", "W", "X", "Y", "Z",
      "[", "]", "_",
      "a", "b", "c", "d", "e", "f", "g", "h", "i", "j", "k", "l", "m",
      "n", "o", "p", "q", "r", "s", "t", "u", "v", "w", "x", "y", "z">>

Ord(c) == CHOOSE n \in 1..Len(Ascii) : Ascii[n] = c

IsUpper(c) == Ord(c) \in Ord("A")..Ord("Z")

IsLower(c) == Ord(c) \in Ord("a")..Ord("z")

IsCased(c) == IsUpper(c) \/ IsLower(c)

Upper(c) == IF IsLower(c) THEN Ascii[Ord(c) - Ord("a") + Ord("A")] ELSE c

Lower(c) == IF IsUpper(c) THEN Ascii[Ord(c) - Ord("A") + Ord("a")] ELSE c

\* str < str: the order sort_keys=True sorts by.
StrLess(s, t) ==
    \E n \in 1..(Len(t)) :
        /\ \A m \in 1..(n - 1) : m <= Len(s) /\ s[m] = t[m]
        /\ \/ n > Len(s)
           \/ n <= Len(s) /\ Ord(s[n]) < Ord(t[n])

\* str.split("."): the (possibly empty) pieces between the dots.
RECURSIVE Split(_)
Split(s) ==
    IF \A n \in 1..Len(s) : s[n] # "."
    THEN <<s>>
    ELSE LET d == CHOOSE n \in 1..Len(s) :
                      s[n] = "." /\ \A m \in 1..(n - 1) : s[m] # "."
         IN  <<SubSeq(s, 1, d - 1)>> \o Split(SubSeq(s, d + 1, Len(s)))

\* str.replace("_", " ")
ReplaceUnderscores(s) == [n \in 1..Len(s) |-> IF s[n] = "_" THEN " " ELSE s[n]]

\* str.title(): a cased character is upper-cased unless a cased character
\* precedes it, and lower-cased then.
Title(s) ==
    [n \in 1..Len(s) |->
        IF n > 1 /\ IsCased(s[n - 1]) THEN Lower(s[n]) ELSE Upper(s[n])]

\* str.strip(): without the leading and trailing blanks.
RECURSIVE Strip(_)
Strip(s) ==
    IF s = <<>> THEN s
    ELSE IF Head(s) = " " THEN Strip(Tail(s))
    ELSE IF s[Len(s)] = " " THEN Strip(SubSeq(s, 1, Len(s) - 1))
    ELSE s

\* f"[DE] {s}"
Tagged(s) == <<"[", "D", "E", "]", " ">> \o s

---------------------------------------------------------------------------
(* JSON values.                                                            *)

None == [t |-> "null", v |-> <<>>]

Str(s) == [t |-> "str", v |-> s]

List(q) == [t |-> "list", v |-> q]

Dict(f) == [t |-> "dict", v |-> f]

EmptyDict == Dict(<<>>)

\* isinstance(x, dict), isinstance(x, str)
IsDict(x) == x.t = "dict"

IsStr(x) == x.t = "str"

\* d[k] = x on a dict d
Put(d, k, x) ==
    Dict([q \in DOMAIN d.v \cup {k} |-> IF q = k THEN x ELSE d.v[q]])

\* The keys of a dict as sort_keys=True orders them.
RECURSIVE SortedKeys(_)
SortedKeys(S) ==
    IF S = {} THEN <<>>
    ELSE LET m == CHOOSE x \in S : \A y \in S \ {x} : StrLess(x, y)
         IN  <<m>> \o SortedKeys(S \ {m})

\* json.dump(x, f, indent=4, sort_keys=True): the text written.
RECURSIVE Dump(_)
Dump(x) ==
    CASE x.t = "dict" ->
             LET ks == SortedKeys(DOMAIN x.v)
             IN  [t |-> "object",
                  v |-> [n \in 1..Len(ks) |-> <<ks[n], Dump(x.v[ks[n]])>>]]
      [] x.t = "list" ->
             [t |-> "array", v |-> [n \in 1..Len(x.v) |-> Dump(x.v[n])]]
      [] OTHER -> x

\* json.load(f) of a text that parses: of a repeated member the last stands.
RECURSIVE Load(_)
Load(text) ==
    CASE text.t = "object" ->
             Dict([k \in {text.v[n][1] : n \in 1..Len(text.v)} |->
                      LET last == CHOOSE n \in 1..Len(text.v) :
                                      /\ text.v[n][1] = k
                                      /\ \A m \in (n + 1)..Len(text.v) :
                                             text.v[m][1] # k
                      IN  Load(text.v[last][2])])
      [] text.t = "array" ->
             List([n \in 1..Len(text.v) |-> Load(text.v[n])])
      [] OTHER -> text

\* os.path.exists(path), and whether json.load(f) raises.
Absent == [t |-> "absent", v |-> <<>>]

Garbage == [t |-> "garbage", v |-> <<>>]

Exists(file) == file.t # "absent"

Parses(file) == file.t \notin {"absent", "garbage"}

\* The key file as the lines it holds.
Lines(q) == [t |-> "lines", v |-> q]

---------------------------------------------------------------------------
(* get_nested and set_nested.                                              *)

\* get_nested(data, key), parts = key.split("."): None when a part is
\* missing or the value reached is no dict.
RECURSIVE GetParts(_, _)
GetParts(d, parts) ==
    IF parts = <<>> THEN d
    ELSE IF IsDict(d) /\ Head(parts) \in DOMAIN d.v
         THEN GetParts(d.v[Head(parts)], Tail(parts))
         ELSE None

get_nested(d, key) == GetParts(d, Split(key))

\* x in s for strings: s holds x as a substring.
Contains(s, x) ==
    \E n \in 0..(Len(s) - Len(x)) : SubSeq(s, n + 1, n + Len(x)) = x

\* part in d, for the values d can be when set_nested evaluates it: a
\* TypeError on None, element membership on a list, substring on a str.
InRaises(d) == d.t = "null"

In(part, d) ==
    CASE d.t = "dict" -> part \in DOMAIN d.v
      [] d.t = "str"  -> Contains(d.v, part)
      [] d.t = "list" -> \E n \in 1..Len(d.v) : d.v[n] = Str(part)
      [] OTHER        -> FALSE

\* Whether set_nested(d, key, value) raises: only on a d that is no dict.
\* An intermediate part: `part not in d` raises on None; d[part] = {} and
\* d[part] raise on a list and on a str.  The last part: `last_key not in d`
\* raises on None, and d[last_key] = value raises unless the part is in d.
SetRaises(d, parts) ==
    /\ ~IsDict(d)
    /\ \/ InRaises(d)
       \/ Len(parts) > 1
       \/ ~In(parts[1], d)

\* set_nested without `if last_key not in data`.
RECURSIVE SetPartsOverwrites(_, _, _)
SetPartsOverwrites(d, parts, value) ==
    IF ~IsDict(d) THEN d
    ELSE IF Len(parts) = 1
         THEN Put(d, Head(parts), value)
         ELSE LET part == Head(parts)
                  sub  == IF part \notin DOMAIN d.v \/ ~IsDict(d.v[part])
                          THEN EmptyDict
                          ELSE d.v[part]
              IN  Put(d, part, SetPartsOverwrites(sub, Tail(parts), value))

\* set_nested(d, key, value) where it does not raise: d afterwards.
RECURSIVE SetParts(_, _, _)
SetParts(d, parts, value) ==
    IF ~IsDict(d) THEN d
    ELSE IF Len(parts) = 1
         THEN IF Head(parts) \in DOMAIN d.v THEN d
              ELSE Put(d, Head(parts), value)
         ELSE LET part == Head(parts)
                  sub  == IF part \notin DOMAIN d.v \/ ~IsDict(d.v[part])
                          THEN EmptyDict
                          ELSE d.v[part]
              IN  Put(d, part, SetParts(sub, Tail(parts), value))

set_nested(d, key, value) == SetParts(d, Split(key), value)

---------------------------------------------------------------------------
(* The inputs.                                                             *)

\* The most messages a catalog holds, the most lines the key file holds,
\* and the most members (at all levels) the EN tree on disk holds.
MaxMsgs == 2

MaxKeys == 2

MaxEntries == 2

\* All sequences over S of length at most n.
SeqsUpTo(S, n) == UNION {[1..m -> S] : m \in 0..n}

\* All dicts with keys among K and values among V.
DictsOver(K, V) == {Dict(f) : f \in UNION {[D -> V] : D \in SUBSET K}}

\* The number of members of a value, at all levels.
RECURSIVE Entries(_)
RECURSIVE SumEntries(_, _)
SumEntries(x, S) ==
    IF S = {} THEN 0
    ELSE LET k == CHOOSE q \in S : TRUE
         IN  1 + Entries(x.v[k]) + SumEntries(x, S \ {k})

Entries(x) == IF IsDict(x) THEN SumEntries(x, DOMAIN x.v) ELSE 0

\* The field names of a gotext catalog.
K_language == <<"l", "a", "n", "g", "u", "a", "g", "e">>

K_messages == <<"m", "e", "s", "s", "a", "g", "e", "s">>

K_message == <<"m", "e", "s", "s", "a", "g", "e">>

K_translation == <<"t", "r", "a", "n", "s", "l", "a", "t", "i", "o", "n">>

K_id == <<"i", "d">>

\* Message records: with or without a message ("Hi" or "Ok"), a prior
\* translation and a further field.
MsgRecords ==
    {Dict(f) : f \in UNION {
        [D -> {Str(<<"H", "i">>), Str(<<"O", "k">>), Str(<<"o", "l", "d">>)}] :
            D \in SUBSET {K_message, K_translation, K_id}}}

MsgChoices ==
    {r \in MsgRecords :
        /\ K_message \in DOMAIN r.v => r.v[K_message] # Str(<<"o", "l", "d">>)
        /\ K_translation \in DOMAIN r.v =>
               r.v[K_translation] = Str(<<"o", "l", "d">>)
        /\ K_id \in DOMAIN r.v => r.v[K_id] = Str(<<"H", "i">>)}

\* Catalogs: records with a list of message records, with or without a
\* language and a further field; records without messages or whose
\* messages are no list; values that are no record.
Catalogs ==
    {Put(top, K_messages, List(q)) :
        top \in DictsOver({K_language, K_id}, {Str(<<"e", "n">>)}),
        q \in SeqsUpTo(MsgChoices, MaxMsgs)}
    \cup DictsOver({K_language, K_id}, {Str(<<"e", "n">>)})
    \cup {Dict(K_messages :> x) :
             x \in {None, EmptyDict, Str(<<>>), Str(<<"H", "i">>),
                    List(<<Str(<<"H", "i">>)>>)}}
    \cup {None, List(<<>>), Str(<<"H", "i">>)}

CatFiles == {Absent, Garbage} \cup {Dump(x) : x \in Catalogs}

\* The lines of the key file, without their line ends.
KeyLines ==
    { <<"a">>,
      <<"a", ".", "b">>,
      <<"a", ".", "b", ".", "c">>,
      <<" ", "b", "_", "a", "B", " ">>,
      <<" ">> }

KeysFiles == {Absent} \cup {Lines(q) : q \in SeqsUpTo(KeyLines, MaxKeys)}

\* EN trees on disk: two levels of dicts over the parts a and b, the
\* leaves null, a string or a list.
Leaves == {None, Str(<<"W">>), List(<<>>)}

Parts == {<<"a">>, <<"b">>}

EnTrees ==
    {x \in DictsOver(Parts, Leaves \cup DictsOver(Parts, Leaves)) :
        Entries(x) <= MaxEntries}

\* EN files: none, one that does not parse, a tree, a value that is no dict.
EnFiles ==
    {Absent, Garbage}
    \cup {Dump(x) : x \in EnTrees}
    \cup {None, List(<<>>), List(<<Str(<<"a">>)>>), Str(<<"a">>)}

---------------------------------------------------------------------------
(* process_backend.                                                        *)

\* The operations and the files written, as the history names them.
P_backend == "process_backend"

P_frontend == "process_frontend"

F_deCat == "locales/de/messages.gotext.json"

F_en == "ui/src/locales/en.json"

F_de == "ui/src/locales/de.json"

\* An exception nothing catches: the interpreter stops.
Raise == pc' = "raised"

\* What `for msg in x` iterates over: the elements of a list, the keys of
\* a dict, the characters of a str.
Items(x) ==
    CASE x.t = "list" -> x.v
      [] x.t = "dict" ->
             LET ks == SortedKeys(DOMAIN x.v)
             IN  [n \in 1..Len(ks) |-> Str(ks[n])]
      [] x.t = "str"  -> [n \in 1..Len(x.v) |-> Str(<<x.v[n]>>)]
      [] OTHER        -> <<>>

\* The translation set only where the record has none.
TranslateIfAbsent(msg) ==
    IF K_translation \in DOMAIN msg.v THEN msg
    ELSE Put(msg, K_translation, Str(Tagged(msg.v[K_message].v)))

\* msg["translation"] = f"[DE] {msg['message']}" on a message record.
Translate(msg) == Put(msg, K_translation, Str(Tagged(msg.v[K_message].v)))

\* data["language"] = "de"
SetLanguage(d) == Put(d, K_language, Str(<<"d", "e">>))

\* __main__: process_backend()
CallBackend ==
    /\ pc = "main_backend"
    /\ pc' = "be_exists"
    /\ calls' = Append(calls, P_backend)
    /\ UNCHANGED <<catFile, deCatFile, keysFile, enFile, deFile, data, j,
                   keys, en_data, de_data, i, en_val, written, run,
                   enFile0, enFile1, deFile1, sn_data, sn_key, sn_out>>

\* The catalog is missing: print and leave the program.
BackendMissingExits ==
    /\ pc = "be_exists"
    /\ ~Exists(catFile)
    /\ pc' = "exit"
    /\ UNCHANGED <<catFile, deCatFile, keysFile, enFile, deFile, data, j,
                   keys, en_data, de_data, i, en_val, calls, written, run,
                   enFile0, enFile1, deFile1, sn_data, sn_key, sn_out>>

\* The catalog is missing: print and return.
BackendMissing ==
    /\ pc = "be_exists"
    /\ ~Exists(catFile)
    /\ pc' = "main_frontend"
    /\ UNCHANGED <<catFile, deCatFile, keysFile, enFile, deFile, data, j,
                   keys, en_data, de_data, i, en_val, calls, written, run,
                   enFile0, enFile1, deFile1, sn_data, sn_key, sn_out>>

\* data = json.load(f); data["language"] = "de".  json.load raises on a
\* text that does not parse, the assignment on a value that is no dict.
BackendLoad ==
    /\ pc = "be_exists"
    /\ Exists(catFile)
    /\ IF Parses(catFile) /\ IsDict(Load(catFile))
       THEN /\ data' = SetLanguage(Load(catFile))
            /\ pc' = "be_messages"
       ELSE /\ Raise
            /\ UNCHANGED data
    /\ UNCHANGED <<catFile, deCatFile, keysFile, enFile, deFile, j,
                   keys, en_data, de_data, i, en_val, calls, written, run,
                   enFile0, enFile1, deFile1, sn_data, sn_key, sn_out>>

\* for msg in data["messages"]: a KeyError without the field, a TypeError
\* on null.
BackendMessages ==
    /\ pc = "be_messages"
    /\ IF K_messages \in DOMAIN data.v /\ data.v[K_messages] # None
       THEN /\ pc' = "be_loop"
            /\ j' = 0
       ELSE /\ Raise
            /\ UNCHANGED j
    /\ UNCHANGED <<catFile, deCatFile, keysFile, enFile, deFile, data,
                   keys, en_data, de_data, i, en_val, calls, written, run,
                   enFile0, enFile1, deFile1, sn_data, sn_key, sn_out>>

\* One turn of the loop that passes over a record without a message.
BackendTranslateSkips ==
    /\ pc = "be_loop"
    /\ j < Len(Items(data.v[K_messages]))
    /\ LET msg == Items(data.v[K_messages])[j + 1]
       IN  IF ~IsDict(msg)
           THEN /\ Raise
                /\ UNCHANGED <<data, j>>
           ELSE /\ data' = IF K_message \in DOMAIN msg.v
                           THEN Put(data, K_messages,
                                    List([data.v[K_messages].v
                                            EXCEPT ![j + 1] = Translate(msg)]))
                           ELSE data
                /\ j' = j + 1
                /\ pc' = "be_loop"
    /\ UNCHANGED <<catFile, deCatFile, keysFile, enFile, deFile,
                   keys, en_data, de_data, i, en_val, calls, written, run,
                   enFile0, enFile1, deFile1, sn_data, sn_key, sn_out>>

\* One turn of the loop: a TypeError on a msg that is no dict, a KeyError
\* on one without a message; else the record is changed in place.
BackendTranslate ==
    /\ pc = "be_loop"
    /\ j < Len(Items(data.v[K_messages]))
    /\ LET msg == Items(data.v[K_messages])[j + 1]
       IN  IF IsDict(msg) /\ K_message \in DOMAIN msg.v
           THEN /\ data' = Put(data, K_messages,
                               List([data.v[K_messages].v
                                         EXCEPT ![j + 1] = Translate(msg)]))
                /\ j' = j + 1
                /\ pc' = "be_loop"
           ELSE /\ Raise
                /\ UNCHANGED <<data, j>>
    /\ UNCHANGED <<catFile, deCatFile, keysFile, enFile, deFile,
                   keys, en_data, de_data, i, en_val, calls, written, run,
                   enFile0, enFile1, deFile1, sn_data, sn_key, sn_out>>

\* After the loop: json.dump(data, f, indent=4, sort_keys=True), print,
\* return.
BackendWrite ==
    /\ pc = "be_loop"
    /\ j = Len(Items(data.v[K_messages]))
    /\ deCatFile' = Dump(data)
    /\ written' = Append(written, F_deCat)
    /\ pc' = "main_frontend"
    /\ UNCHANGED <<catFile, keysFile, enFile, deFile, data, j,
                   keys, en_data, de_data, i, en_val, calls, run,
                   enFile0, enFile1, deFile1, sn_data, sn_key, sn_out>>

---------------------------------------------------------------------------
(* process_frontend.                                                       *)

\* [line.strip() for line in f if line.strip()]
RECURSIVE ReadKeys(_)
ReadKeys(lines) ==
    IF lines = <<>> THEN <<>>
    ELSE IF Strip(Head(lines)) # <<>>
         THEN <<Strip(Head(lines))>> \o ReadKeys(Tail(lines))
         ELSE ReadKeys(Tail(lines))

\* en_data left {} whatever the file holds.
LoadEnForgotten(file) == EmptyDict

\* en_data after the load: {} unless the file exists and parses.
LoadEn(file) == IF Exists(file) /\ Parses(file) THEN Load(file) ELSE EmptyDict

\* key.split(".")[-1].replace("_", " ").title()
Display(key) ==
    LET parts == Split(key)
    IN  Title(ReplaceUnderscores(parts[Len(parts)]))

\* __main__: process_frontend()
CallFrontend ==
    /\ pc = "main_frontend"
    /\ pc' = "fe_exists"
    /\ calls' = Append(calls, P_frontend)
    /\ UNCHANGED <<catFile, deCatFile, keysFile, enFile, deFile, data, j,
                   keys, en_data, de_data, i, en_val, written, run,
                   enFile0, enFile1, deFile1, sn_data, sn_key, sn_out>>

\* The key list is missing: print and return.
FrontendMissing ==
    /\ pc = "fe_exists"
    /\ ~Exists(keysFile)
    /\ pc' = "exit"
    /\ UNCHANGED <<catFile, deCatFile, keysFile, enFile, deFile, data, j,
                   keys, en_data, de_data, i, en_val, calls, written, run,
                   enFile0, enFile1, deFile1, sn_data, sn_key, sn_out>>

\* Read the keys, load the EN tree, start the DE tree as the EN tree.
FrontendLoadDeFromEn ==
    /\ pc = "fe_exists"
    /\ Exists(keysFile)
    /\ keys' = ReadKeys(keysFile.v)
    /\ en_data' = LoadEn(enFile)
    /\ de_data' = IF IsDict(LoadEn(enFile)) THEN LoadEn(enFile) ELSE EmptyDict
    /\ i' = 0
    /\ pc' = "fe_loop"
    /\ UNCHANGED <<catFile, deCatFile, keysFile, enFile, deFile, data, j,
                   en_val, calls, written, run,
                   enFile0, enFile1, deFile1, sn_data, sn_key, sn_out>>

\* Read the keys, load the EN tree, start the DE tree empty.
FrontendLoad ==
    /\ pc = "fe_exists"
    /\ Exists(keysFile)
    /\ keys' = ReadKeys(keysFile.v)
    /\ en_data' = LoadEn(enFile)
    /\ de_data' = EmptyDict
    /\ i' = 0
    /\ pc' = "fe_loop"
    /\ UNCHANGED <<catFile, deCatFile, keysFile, enFile, deFile, data, j,
                   en_val, calls, written, run,
                   enFile0, enFile1, deFile1, sn_data, sn_key, sn_out>>

\* The first half of a turn of the loop: look the key up in EN, and add
\* its display name where get_nested returned None.
FrontendMergeEn ==
    /\ pc = "fe_loop"
    /\ i < Len(keys)
    /\ LET key == keys[i + 1]
           existing_val == get_nested(en_data, key)
       IN  IF existing_val = None
           THEN IF SetRaises(en_data, Split(key))
                THEN /\ Raise
                     /\ UNCHANGED <<en_data, en_val>>
                ELSE /\ en_data' = set_nested(en_data, key, Str(Display(key)))
                     /\ en_val' = Str(Display(key))
                     /\ pc' = "fe_de"
           ELSE /\ en_val' = existing_val
                /\ pc' = "fe_de"
                /\ UNCHANGED en_data
    /\ UNCHANGED <<catFile, deCatFile, keysFile, enFile, deFile, data, j,
                   keys, de_data, i, calls, written, run,
                   enFile0, enFile1, deFile1, sn_data, sn_key, sn_out>>

\* The second half: add the tagged value to DE when en_val is a str.
FrontendMergeDe ==
    /\ pc = "fe_de"
    /\ de_data' = IF IsStr(en_val)
                  THEN set_nested(de_data, keys[i + 1], Str(Tagged(en_val.v)))
                  ELSE de_data
    /\ i' = i + 1
    /\ pc' = "fe_loop"
    /\ UNCHANGED <<catFile, deCatFile, keysFile, enFile, deFile, data, j,
                   keys, en_data, en_val, calls, written, run,
                   enFile0, enFile1, deFile1, sn_data, sn_key, sn_out>>

\* After the loop: the DE tree written to the EN file.
FrontendWriteEnFromDe ==
    /\ pc = "fe_loop"
    /\ i = Len(keys)
    /\ enFile' = Dump(de_data)
    /\ written' = Append(written, F_en)
    /\ pc' = "fe_write_de"
    /\ UNCHANGED <<catFile, deCatFile, keysFile, deFile, data, j,
                   keys, en_data, de_data, i, en_val, calls, run,
                   enFile0, enFile1, deFile1, sn_data, sn_key, sn_out>>

\* After the loop: write EN back.
FrontendWriteEn ==
    /\ pc = "fe_loop"
    /\ i = Len(keys)
    /\ enFile' = Dump(en_data)
    /\ written' = Append(written, F_en)
    /\ pc' = "fe_write_de"
    /\ UNCHANGED <<catFile, deCatFile, keysFile, deFile, data, j,
                   keys, en_data, de_data, i, en_val, calls, run,
                   enFile0, enFile1, deFile1, sn_data, sn_key, sn_out>>

\* Write DE, print, return.
FrontendWriteDe ==
    /\ pc = "fe_write_de"
    /\ deFile' = Dump(de_data)
    /\ written' = Append(written, F_de)
    /\ pc' = "exit"
    /\ UNCHANGED <<catFile, deCatFile, keysFile, enFile, data, j,
                   keys, en_data, de_data, i, en_val, calls, run,
                   enFile0, enFile1, deFile1, sn_data, sn_key, sn_out>>

\* The operator runs process_frontend once more on the files as they are.
Rerun ==
    /\ pc = "exit"
    /\ run = 1
    /\ run' = 2
    /\ enFile1' = enFile
    /\ deFile1' = deFile
    /\ pc' = "main_frontend"
    /\ UNCHANGED <<catFile, deCatFile, keysFile, enFile, deFile, data, j,
                   keys, en_data, de_data, i, en_val, calls, written,
                   enFile0, sn_data, sn_key, sn_out>>

\* set_nested alone, on a tree and a key.
SetNestedCall ==
    /\ pc = "sn_call"
    /\ sn_out' = set_nested(sn_data, sn_key, Str(<<"V">>))
    /\ pc' = "sn_done"
    /\ UNCHANGED <<catFile, deCatFile, keysFile, enFile, deFile, data, j,
                   keys, en_data, de_data, i, en_val, calls, written, run,
                   enFile0, enFile1, deFile1, sn_data, sn_key>>

---------------------------------------------------------------------------
(* The specifications.                                                     *)

Idle ==
    /\ data = None /\ j = 0 /\ keys = <<>> /\ en_data = None
    /\ de_data = None /\ i = 0 /\ en_val = None /\ calls = <<>>
    /\ written = <<>> /\ run = 1 /\ enFile0 = enFile
    /\ enFile1 = Absent /\ deFile1 = Absent
    /\ deCatFile = Absent /\ deFile = Absent

\* The keys and EN files the whole program is run on.
MainKeysFiles == {Absent, Lines(<< <<"a", ".", "b">> >>)}

MainEnFiles == {Absent, Garbage, Dump(Dict(<<"a">> :> Str(<<"W">>)))}

\* The whole program: process_backend(), then process_frontend().
Init ==
    /\ pc = "main_backend"
    /\ catFile \in CatFiles
    /\ keysFile \in MainKeysFiles
    /\ enFile \in MainEnFiles
    /\ sn_data = None /\ sn_key = <<>> /\ sn_out = None
    /\ Idle

Next ==
    \/ CallBackend
    \/ BackendMissing
    \/ BackendLoad
    \/ BackendMessages
    \/ BackendTranslate
    \/ BackendWrite
    \/ CallFrontend
    \/ FrontendMissing
    \/ FrontendLoad
    \/ FrontendMergeEn
    \/ FrontendMergeDe
    \/ FrontendWriteEn
    \/ FrontendWriteDe

Spec == Init /\ [][Next]_vars

\* process_frontend on its own, run once and once more.
InitFrontend ==
    /\ pc = "main_frontend"
    /\ catFile = Absent
    /\ keysFile \in KeysFiles
    /\ enFile \in EnFiles
    /\ sn_data = None /\ sn_key = <<>> /\ sn_out = None
    /\ Idle

NextFrontend ==
    \/ CallFrontend
    \/ FrontendMissing
    \/ FrontendLoad
    \/ FrontendMergeEn
    \/ FrontendMergeDe
    \/ FrontendWriteEn
    \/ FrontendWriteDe
    \/ Rerun

SpecFrontend == InitFrontend /\ [][NextFrontend]_vars

\* The keys set_nested is called with on its own.
SetNestedKeys ==
    ({Strip(l) : l \in KeyLines} \ {<<>>})
    \cup {<<"b">>, <<"b", ".", "a">>, <<"a", ".">>}

\* set_nested on its own.
InitSetNested ==
    /\ pc = "sn_call"
    /\ catFile = Absent /\ keysFile = Absent /\ enFile = Absent
    /\ sn_data \in EnTrees
    /\ sn_key \in SetNestedKeys
    /\ sn_out = None
    /\ Idle

NextSetNested == SetNestedCall

SpecSetNested == InitSetNested /\ [][NextSetNested]_vars

---------------------------------------------------------------------------
(* What the properties are stated with.                                    *)

Missing == [t |-> "missing", v |-> <<>>]

\* The member of x at a path of parts, Missing where there is none.
RECURSIVE At(_, _)
At(x, path) ==
    IF path = <<>> THEN x
    ELSE IF x.t = "dict" /\ Head(path) \in DOMAIN x.v
         THEN At(x.v[Head(path)], Tail(path))
         ELSE Missing

Prefix(path, n) == SubSeq(path, 1, n)

IsPrefix(p, q) == Len(p) <= Len(q) /\ Prefix(q, Len(p)) = p

IsStrictPrefix(p, q) == Len(p) < Len(q) /\ Prefix(q, Len(p)) = p

\* The paths of x that end at a value that is no dict.
RECURSIVE LeafPaths(_)
LeafPaths(x) ==
    IF x.t # "dict" THEN {<<>>}
    ELSE UNION {{<<k>> \o p : p \in LeafPaths(x.v[k])} : k \in DOMAIN x.v}

\* The text after the last dot of a key.
LastSegment(key) ==
    LET dots == {n \in 1..Len(key) : key[n] = "."}
        last == IF dots = {} THEN 0
                ELSE CHOOSE n \in dots : \A m \in dots : m <= n
    IN  SubSeq(key, last + 1, Len(key))

\* The label of a key: its last segment, each underscore a blank, each
\* letter that starts a word a capital and each other letter small.
Label(key) ==
    LET seg == LastSegment(key)
    IN  [n \in 1..Len(seg) |->
            IF seg[n] = "_" THEN " "
            ELSE IF n = 1 \/ ~IsCased(seg[n - 1]) THEN Upper(seg[n])
            ELSE Lower(seg[n])]

\* s is "[DE] " followed by m.
IsTagOf(s, m) ==
    /\ Len(s) = Len(m) + 5
    /\ SubSeq(s, 1, 5) = <<"[", "D", "E", "]", " ">>
    /\ SubSeq(s, 6, Len(s)) = m

NoDuplicates(q) == \A m, n \in 1..Len(q) : q[m] = q[n] => m = n

Wrote(file) == \E n \in 1..Len(written) : written[n] = file

BackendRaised == pc = "raised" /\ calls = <<P_backend>>

FrontendRaised == pc = "raised" /\ calls[Len(calls)] = P_frontend

BackendReturned == pc = "main_frontend" \/ P_frontend \in {calls[n] : n \in 1..Len(calls)}

\* A catalog as C1 takes it: a record whose messages are a list of records
\* that each have a message, a string.
ValidCatalog(file) ==
    /\ Parses(file)
    /\ LET c == Load(file)
       IN  /\ c.t = "dict"
           /\ K_messages \in DOMAIN c.v
           /\ c.v[K_messages].t = "list"
           /\ \A n \in 1..Len(c.v[K_messages].v) :
                  LET r == c.v[K_messages].v[n]
                  IN  /\ r.t = "dict"
                      /\ K_message \in DOMAIN r.v
                      /\ r.v[K_message].t = "str"

\* A catalog as C5 takes it: it does not parse, has no messages field, or
\* has a message record without a message.
MalformedCatalog(file) ==
    /\ Exists(file)
    /\ \/ ~Parses(file)
       \/ At(Load(file), <<K_messages>>) = Missing
       \/ /\ At(Load(file), <<K_messages>>).t = "list"
          /\ \E n \in 1..Len(Load(file).v[K_messages].v) :
                 LET r == Load(file).v[K_messages].v[n]
                 IN  r.t = "dict" /\ K_message \notin DOMAIN r.v

\* The EN file before the first run holds a tree, or there is none to load.
EnIsTree == ~Parses(enFile0) \/ Load(enFile0).t = "dict"

\* The EN tree before the first run: empty where there was none to load.
EnBefore == IF Parses(enFile0) THEN Load(enFile0) ELSE Dict(<<>>)

\* A run of process_frontend that read the key list has returned.
FrontendDone == pc = "exit" /\ Exists(keysFile)

---------------------------------------------------------------------------
(* The backend catalog: C1, C4, C5 (under Spec).                           *)

\* C1: process_backend does not raise on a valid catalog (a record whose
\* messages are a list of records with a string message each), and once it
\* has returned, the file it wrote has language "de" and the fields of the
\* input beside it; it has as many message records as the input, in the
\* same order, each with the translation "[DE] " + message and its other
\* fields as they were.
C1_BackendOutput ==
    /\ ValidCatalog(catFile) => ~BackendRaised
    /\ (ValidCatalog(catFile) /\ BackendReturned) =>
        /\ written[1] = F_deCat
        /\ Parses(deCatFile)
        /\ LET old == Load(catFile)
               new == Load(deCatFile)
               oldMsgs == old.v[K_messages].v
               newMsgs == new.v[K_messages].v
           IN  /\ DOMAIN new.v = DOMAIN old.v \cup {K_language}
               /\ new.v[K_language] = Str(<<"d", "e">>)
               /\ \A k \in DOMAIN old.v \ {K_language, K_messages} :
                      new.v[k] = old.v[k]
               /\ new.v[K_messages].t = "list"
               /\ Len(newMsgs) = Len(oldMsgs)
               /\ \A n \in 1..Len(oldMsgs) :
                      /\ DOMAIN newMsgs[n].v =
                             DOMAIN oldMsgs[n].v \cup {K_translation}
                      /\ newMsgs[n].v[K_translation].t = "str"
                      /\ IsTagOf(newMsgs[n].v[K_translation].v,
                                 oldMsgs[n].v[K_message].v)
                      /\ \A k \in DOMAIN oldMsgs[n].v \ {K_translation} :
                             newMsgs[n].v[k] = oldMsgs[n].v[k]

\* The run is over on a catalog with a language, a further field and two
\* messages, the first with a prior translation, the second with a further
\* field.
C1_Witness ==
    /\ ValidCatalog(catFile)
    /\ pc = "exit"
    /\ LET old == Load(catFile)
       IN  /\ K_language \in DOMAIN old.v
           /\ K_id \in DOMAIN old.v
           /\ Len(old.v[K_messages].v) = 2
           /\ old.v[K_messages].v[1].v[K_message] = Str(<<"O", "k">>)
           /\ old.v[K_messages].v[2].v[K_message] = Str(<<"H", "i">>)
           /\ K_translation \in DOMAIN old.v[K_messages].v[1].v
           /\ K_id \in DOMAIN old.v[K_messages].v[2].v

\* C4: without a catalog process_backend writes nothing and does not raise;
\* without a key list process_frontend writes neither EN nor DE and does not
\* raise; a run that ends without a fault has entered process_backend and
\* then process_frontend.
C4_SkipOnMissing ==
    /\ ~Exists(catFile) =>
           /\ ~Wrote(F_deCat)
           /\ ~BackendRaised
           /\ deCatFile = Absent
           /\ pc \notin {"main_backend", "be_exists"} =>
                  \/ pc = "main_frontend" /\ ENABLED CallFrontend
                  \/ calls = <<P_backend, P_frontend>>
    /\ ~Exists(keysFile) =>
           /\ ~Wrote(F_en) /\ ~Wrote(F_de)
           /\ enFile = enFile0 /\ deFile = Absent
           /\ ~FrontendRaised
    /\ pc = "exit" => calls = <<P_backend, P_frontend>>
    /\ pc = "main_frontend" => calls = <<P_backend>> /\ ENABLED CallFrontend

C4_Witness ==
    /\ ~Exists(catFile)
    /\ ~Exists(keysFile)
    /\ pc = "exit"
    /\ calls = <<P_backend, P_frontend>>
    /\ written = <<>>

\* C5: on a catalog that does not parse, has no messages or has a message
\* record without a message, no file is ever written and process_frontend
\* is never entered: the run does not leave process_backend but raised.
C5_MalformedAborts ==
    MalformedCatalog(catFile) =>
        /\ written = <<>>
        /\ deCatFile = Absent /\ enFile = enFile0 /\ deFile = Absent
        /\ calls \in {<<>>, <<P_backend>>}
        /\ pc \in {"main_backend", "be_exists", "be_messages", "be_loop",
                    "raised"}
        /\ pc = "raised" => BackendRaised

C5_Witness ==
    /\ MalformedCatalog(catFile)
    /\ BackendRaised
    /\ j = 1
    /\ Exists(keysFile)

---------------------------------------------------------------------------
(* The frontend trees: C2, C3, C6, C7, C9, C10 (under SpecFrontend).       *)

\* C2: after a run of process_frontend that started from an EN tree, every
\* key of the list resolves through get_nested on the EN tree written to a
\* value that is not None.
C2_EveryKeyResolves ==
    (FrontendDone /\ EnIsTree) =>
        \A n \in 1..Len(keys) : get_nested(Load(enFile), keys[n]) # None

\* C3 (as stated): every leaf of the EN tree before the first run is
\* at the same path with the same value after each run.
C3_NoLeafLost ==
    (FrontendDone /\ EnIsTree) =>
        \A p \in LeafPaths(EnBefore) :
            At(Load(enFile), p) = At(EnBefore, p)

\* C3 (amended): after each run, a leaf of the EN tree before the first
\* run is at the same path with the same value unless a key of the list
\* passes through it (the leaf's path is a strict prefix of the key's
\* parts), and then a mapping has taken its place.
C3_LeafKeptUnlessOnAKeyPath ==
    (FrontendDone /\ EnIsTree) =>
        \A p \in LeafPaths(EnBefore) :
            IF \E n \in 1..Len(keys) : IsStrictPrefix(p, Split(keys[n]))
            THEN At(Load(enFile), p).t = "dict"
            ELSE At(Load(enFile), p) = At(EnBefore, p)

\* A second run has returned, a null leaf that is a key of the list is
\* still null, and a string leaf next to it is as it was.
C3_Witness ==
    /\ FrontendDone
    /\ run = 2
    /\ EnBefore =
           Dict(<<"a">> :> None @@ <<"b">> :> Str(<<"W">>))
    /\ keys = << <<"a">>, <<"b", "_", "a", "B">> >>
    /\ At(Load(enFile), << <<"a">> >>) = None
    /\ At(Load(enFile), << <<"b">> >>) = Str(<<"W">>)

\* C6: process_frontend does not raise once it has read the key list; it
\* then returns with EN and DE written, in that order, in every run; an EN
\* file that does not parse is loaded as the empty tree.
C6_FrontendNeverFatal ==
    /\ ~FrontendRaised
    /\ FrontendDone =>
           /\ Len(written) = 2 * run
           /\ written[Len(written) - 1] = F_en
           /\ written[Len(written)] = F_de
    /\ (pc = "fe_loop" /\ i = 0 /\ enFile = Garbage) => en_data = EmptyDict

\* C7: after a run that started from an EN tree, DE holds a string at a key
\* of the list exactly when EN does, and that string is "[DE] " + the EN
\* string; the EN string of a key that was not in EN is the key's label;
\* every leaf of DE is at a key of the list.
C7_DeMirrorsEnStrings ==
    (FrontendDone /\ EnIsTree) =>
        LET en == Load(enFile)
            de == Load(deFile)
        IN  /\ \A n \in 1..Len(keys) :
                   LET p == Split(keys[n])
                   IN  /\ At(de, p).t = "str" <=> At(en, p).t = "str"
                       /\ At(de, p).t = "str" =>
                              IsTagOf(At(de, p).v, At(en, p).v)
                       /\ (At(EnBefore, p) = Missing
                              /\ At(en, p).t = "str") =>
                              At(en, p).v = Label(keys[n])
            /\ \A q \in LeafPaths(de) :
                   \E n \in 1..Len(keys) : Split(keys[n]) = q

\* C9: with no key twice in the list, whenever the loop is about to merge a
\* string into DE, DE has nothing at the key; and after the merge it has
\* the tagged string there.
C9_DeWriteNeverSuppressed ==
    NoDuplicates(keys) =>
        /\ (pc = "fe_de" /\ en_val.t = "str") =>
               At(de_data, Split(keys[i + 1])) = Missing
        /\ (pc \in {"fe_loop", "fe_write_de"} /\ i > 0 /\ en_val.t = "str") =>
               /\ At(de_data, Split(keys[i])).t = "str"
               /\ IsTagOf(At(de_data, Split(keys[i])).v, en_val.v)

\* The second key is about to be merged below the first, which DE holds.
C9_Witness ==
    /\ pc = "fe_de"
    /\ i = 1
    /\ keys = << <<"a">>, <<"a", ".", "b">> >>
    /\ en_val.t = "str"
    /\ At(de_data, << <<"a">> >>).t = "str"

\* C10: a second run on the EN file the first run wrote, itself started
\* from an EN tree, writes the EN and DE files the first run wrote.
C10_SecondRunFixedPoint ==
    (FrontendDone /\ run = 2 /\ EnIsTree) =>
        /\ Len(written) = 4
        /\ enFile = enFile1
        /\ deFile = deFile1

\* Both runs replaced the string a by a mapping, and added to EN.
C10_Witness ==
    /\ FrontendDone
    /\ run = 2
    /\ Len(written) = 4
    /\ enFile0 = Dump(Dict(<<"a">> :> Str(<<"W">>)))
    /\ keys = << <<"a">>, <<"a", ".", "b">> >>
    /\ Load(enFile) = Dict(<<"a">> :> Dict(<<"b">> :> Str(<<"B">>)))
    /\ Load(deFile) =
           Dict(<<"a">> :> Dict(<<"b">> :> Str(<<"[", "D", "E", "]", " ", "B">>)))

---------------------------------------------------------------------------
(* set_nested: C8 (under SpecSetNested).                                   *)

\* The paths of x to its members, at all levels.
RECURSIVE NodePaths(_)
NodePaths(x) ==
    IF x.t # "dict" THEN {}
    ELSE UNION {{<<k>>} \cup {<<k>> \o p : p \in NodePaths(x.v[k])} :
                   k \in DOMAIN x.v}

\* C8: after set_nested(tree, key, value) every strict prefix of the key's
\* parts is a mapping, one that was a mapping has kept its members; the
\* last part holds value if the tree had nothing there, and what it had
\* otherwise; a member that is neither on the path nor under an
\* intermediate part that was no mapping is as it was.
C8_SetNestedEffect ==
    pc = "sn_done" =>
        LET parts == Split(sn_key)
            made == {n \in 1..(Len(parts) - 1) :
                        At(sn_data, Prefix(parts, n)).t # "dict"}
        IN  /\ \A n \in 1..(Len(parts) - 1) :
                   /\ At(sn_out, Prefix(parts, n)).t = "dict"
                   /\ n \notin made =>
                          DOMAIN At(sn_data, Prefix(parts, n)).v \subseteq
                              DOMAIN At(sn_out, Prefix(parts, n)).v
            /\ At(sn_out, parts) =
                   IF At(sn_data, parts) = Missing THEN Str(<<"V">>)
                   ELSE At(sn_data, parts)
            /\ \A q \in NodePaths(sn_data) \cup NodePaths(sn_out) :
                   (/\ ~IsPrefix(q, parts)
                    /\ \A n \in made : ~IsPrefix(Prefix(parts, n), q)) =>
                       At(sn_out, q) = At(sn_data, q)

\* The string at a was replaced by a mapping on the way to a.b.c, and the
\* null at b was left alone.
C8_Witness ==
    /\ pc = "sn_done"
    /\ sn_key = <<"a", ".", "b", ".", "c">>
    /\ sn_data = Dict(<<"a">> :> Str(<<"W">>) @@ <<"b">> :> None)
    /\ sn_out = Dict(<<"a">> :> Dict(<<"b">> :> Dict(<<"c">> :> Str(<<"V">>)))
                     @@ <<"b">> :> None)

=============================================================================
